---- MODULE Spec2Model ----
(***************************************************************************)
(* Model of contracts/test/_reference/eip712.py: the artifact locator      *)
(* (map_dir, matching_paths, path_match), the AST search generator         *)
(* (ast_get_all_nodes), the schema extractor (ast_to_eip712_type), the     *)
(* value coercer (parse_field_value) and the orchestration in main.        *)
(*                                                                         *)
(* Python strings are sequences of tokens.  A path is a sequence of        *)
(* one-character tokens; a documentation text is a sequence of tokens in   *)
(* which the token "@custom:erc712" stands for that literal (the literal   *)
(* cannot overlap itself, so its occurrences in a text are exactly the     *)
(* occurrences of the token).                                              *)
(***************************************************************************)
EXTENDS Integers, Sequences, FiniteSets, TLC

VARIABLES
    pc,             \* position of the run in main ("error" once an exception escaped)
    err,            \* kind of the exception that ended the run, "none" otherwise
    steps,          \* history: the steps of main that have completed, in order
    fs,             \* the file system below args.out (directory listing order kept)
    struct_path,    \* main: struct_path (the part of path_struct before ':')
    struct_name,    \* main: struct_name
    values,         \* main: args.values
    out_dir,        \* main: out_dir = map_dir(args.out)
    possibilities,  \* main: the candidates matching_paths produced, in order
    artifacts_path, \* main: artifacts_path
    artifact_path,  \* main: artifact_path
    ast,            \* main: ast / the root handed to ast_get_all_nodes
    criteria,       \* the predicate handed to ast_get_all_nodes
    stack,          \* frames of the ast_get_all_nodes generator, innermost last
    yielded,        \* positions of the nodes the generator has yielded, in order
    consumed,       \* number of yielded nodes the consumer has taken
    file_types,     \* main: file_types (struct name -> field list)
    fields,         \* main: fields
    field_values,   \* main: the mapping handed to hash_struct
    hash,           \* main: hash
    stdout,         \* what the run printed to standard output
    struct_def,     \* input of ast_to_eip712_type
    schema,         \* outcome of ast_to_eip712_type(struct_def)
    pm_target,      \* input of path_match
    pm_match,       \* input of path_match
    pm_result       \* outcome of path_match(pm_target, pm_match)

vars == <<pc, err, steps, fs, struct_path, struct_name, values, out_dir,
          possibilities, artifacts_path, artifact_path, ast, criteria, stack,
          yielded, consumed, file_types, fields, field_values, hash, stdout,
          struct_def, schema, pm_target, pm_match, pm_result>>

locVars    == <<fs, struct_path, out_dir, possibilities, artifacts_path, artifact_path>>
genVars    == <<ast, criteria, stack, yielded, consumed>>
mainVars   == <<struct_name, values, file_types, fields, field_values, hash, stdout>>
schemaVars == <<struct_def, schema>>
pmVars     == <<pm_target, pm_match, pm_result>>

None == "none"

(***************************************************************************)
(* Bounds of the model.                                                    *)
(***************************************************************************)
MaxStr      == 3    \* longest string handed to path_match
MaxEntries  == 4    \* entries (files and directories) below args.out
MaxNodes    == 4    \* elements (objects and non-objects) of an AST
MaxData     == 3    \* tokens of a documentation text after its head
MaxValues   == 2    \* raw values on the command line
MaxStructs  == 2    \* elements below the root of the AST of a whole run

(***************************************************************************)
(* Generic helpers.                                                        *)
(***************************************************************************)
Min(S) == CHOOSE m \in S : \A n \in S : m <= n
Max(S) == CHOOSE m \in S : \A n \in S : m >= n
Range(s) == {s[i] : i \in 1..Len(s)}

RECURSIVE SeqsUpTo(_, _)
SeqsUpTo(S, n) ==
    IF n = 0 THEN {<<>>}
    ELSE LET shorter == SeqsUpTo(S, n - 1)
         IN  shorter \cup {Append(s, x) : s \in {t \in shorter : Len(t) = n - 1}, x \in S}

(***************************************************************************)
(* path_match                                                              *)
(***************************************************************************)
\* s[-n:] for n >= 1: the last n items, or all of s when it has fewer
PySuffix(s, n) == IF n >= Len(s) THEN s ELSE SubSeq(s, Len(s) - n + 1, Len(s))

path_match_off_by_one(target_path, match) ==
    LET differ == {i \in 0..(Len(target_path) - 1) :
                      PySuffix(target_path, i + 1) # PySuffix(match, i + 1)}
    IN  IF differ = {} THEN Len(target_path) ELSE Min(differ) + 1

path_match(target_path, match) ==
    LET differ == {i \in 0..(Len(target_path) - 1) :
                      PySuffix(target_path, i + 1) # PySuffix(match, i + 1)}
    IN  IF differ = {} THEN Len(target_path) ELSE Min(differ)

(***************************************************************************)
(* map_dir and matching_paths                                              *)
(***************************************************************************)
Sep == <<"/">>

\* os.path.join of non-empty relative segments
RECURSIVE PathJoin(_)
PathJoin(segs) ==
    IF Len(segs) = 1 THEN segs[1]
    ELSE segs[1] \o Sep \o PathJoin(Tail(segs))

\* os.path.split(p)[1]: what follows the last separator
PathTail(p) ==
    LET slashes == {i \in 1..Len(p) : p[i] = "/"}
    IN  IF slashes = {} THEN p ELSE SubSeq(p, Max(slashes) + 1, Len(p))

\* A directory of fs is the sequence of its entries in os.listdir order;
\* an entry is [name, isfile, sub].
RECURSIVE map_dir(_)
map_dir(dir) ==
    [i \in 1..Len(dir) |->
        [key   |-> dir[i].name,
         value |-> IF dir[i].isfile
                   THEN [t |-> "True"]
                   ELSE [t |-> "dict", items |-> map_dir(dir[i].sub)]]]

RECURSIVE matching_paths(_, _, _)
matching_paths(dir, target_file, path_so_far) ==
    IF dir = <<>> THEN <<>>
    ELSE LET item == Head(dir)
             here == IF item.key = target_file
                     THEN <<PathJoin(Append(path_so_far, item.key))>>
                     ELSE IF item.value.t = "dict"
                     THEN matching_paths(item.value.items, target_file,
                                         Append(path_so_far, item.key))
                     ELSE <<>>
         IN  here \o matching_paths(Tail(dir), target_file, path_so_far)

\* max(seq, key=...) of a non-empty sequence: the running best is replaced
\* only by a strictly greater key
RECURSIVE PyMaxFrom(_, _, _)
PyMaxFrom(seq, best, target) ==
    IF seq = <<>> THEN best
    ELSE PyMaxFrom(Tail(seq),
                   IF path_match(target, Head(seq)) > path_match(target, best)
                   THEN Head(seq) ELSE best,
                   target)

RECURSIVE PyMaxLastFrom(_, _, _)
PyMaxLastFrom(seq, best, target) ==
    IF seq = <<>> THEN best
    ELSE PyMaxLastFrom(Tail(seq),
                       IF path_match(target, Head(seq)) >= path_match(target, best)
                       THEN Head(seq) ELSE best,
                       target)

max_last_wins(seq, target) == PyMaxLastFrom(Tail(seq), Head(seq), target)

max_by_path_match(seq, target) == PyMaxFrom(Tail(seq), Head(seq), target)

(***************************************************************************)
(* The file system below args.out, and the command line.                   *)
(***************************************************************************)
OutName == <<"o">>                          \* args.out
Names   == {<<"c">>, <<"t">>, <<"O">>}      \* names of files and directories

File(nm)     == [name |-> nm, isfile |-> TRUE,  sub |-> <<>>]
Dir(nm, sub) == [name |-> nm, isfile |-> FALSE, sub |-> sub]

\* the directories holding exactly n entries in all, names distinct within
\* one directory and drawn from avail at the top and from all at any depth
RECURSIVE DirsOfSize(_, _, _)
DirsOfSize(n, avail, all) ==
    IF n = 0 THEN {<<>>}
    ELSE UNION { UNION { LET firsts == (IF k = 1 THEN {File(nm)} ELSE {})
                                       \cup {Dir(nm, sub) : sub \in DirsOfSize(k - 1, all, all)}
                         IN  {<<first>> \o rest :
                                 first \in firsts,
                                 rest \in DirsOfSize(n - k, avail \ {nm}, all)}
                       : k \in 1..n }
               : nm \in avail }

DirsUpTo(n, all) == UNION {DirsOfSize(k, all, all) : k \in 0..n}

\* every path below a directory with the entry it names
RECURSIVE Entries(_, _)
Entries(dir, prefix) ==
    UNION { {[path |-> PathJoin(Append(prefix, dir[i].name)), entry |-> dir[i]]}
            \cup Entries(dir[i].sub, Append(prefix, dir[i].name))
          : i \in 1..Len(dir) }

EntryAt(path) == (CHOOSE x \in Entries(fs, <<OutName>>) : x.path = path).entry

\* the struct_path arguments: one or two segments
Requests == {PathJoin(segs) : segs \in SeqsUpTo(Names, 2) \ {<<>>}}

(***************************************************************************)
(* main, lines 172-188: locating and loading the artifact.                 *)
(***************************************************************************)
Fail(kind) ==
    /\ pc'  = "error"
    /\ err' = kind

Step(next, done) ==
    /\ pc'    = next
    /\ steps' = IF done = None THEN steps ELSE Append(steps, done)
    /\ UNCHANGED err

MainMapDir ==
    /\ pc = "map_dir"
    /\ out_dir' = map_dir(fs)
    /\ Step("locate", None)
    /\ UNCHANGED <<fs, struct_path, possibilities, artifacts_path, artifact_path>>
    /\ UNCHANGED <<genVars, mainVars, schemaVars, pmVars>>

MainLocate ==
    /\ pc = "locate"
    /\ LET path_tail == PathTail(struct_path)
           found     == matching_paths(out_dir, path_tail, <<OutName>>)
       IN  /\ possibilities' = found
           /\ IF found = <<>>
              THEN /\ Fail("ValueError: max() arg is an empty sequence")
                   /\ UNCHANGED <<artifacts_path, steps>>
              ELSE /\ artifacts_path' = max_by_path_match(found, struct_path)
                   /\ Step("listdir", None)
    /\ UNCHANGED <<fs, struct_path, out_dir, artifact_path>>
    /\ UNCHANGED <<genVars, mainVars, schemaVars, pmVars>>

MainListDir ==
    /\ pc = "listdir"
    /\ LET chosen == EntryAt(artifacts_path)
       IN  IF chosen.isfile
           THEN /\ Fail("NotADirectoryError")
                /\ UNCHANGED <<artifact_path, steps>>
           ELSE IF chosen.sub = <<>>
           THEN /\ Fail("IndexError")
                /\ UNCHANGED <<artifact_path, steps>>
           ELSE /\ artifact_path' = PathJoin(<<artifacts_path, chosen.sub[1].name>>)
                /\ Step("load", "located")
    /\ UNCHANGED <<fs, struct_path, out_dir, possibilities, artifacts_path>>
    /\ UNCHANGED <<genVars, mainVars, schemaVars, pmVars>>

(***************************************************************************)
(* JSON values of the AST.  An element is an object                        *)
(* [t |-> "obj", nodeType, nodes, name, members, documentation] or a value *)
(* that is no object, [t |-> "str"]; a key that is not present holds       *)
(* [t |-> "absent"]; a list is [t |-> "list", items |-> <<...>>].          *)
(***************************************************************************)
Absent     == [t |-> "absent"]
NonObject  == [t |-> "str"]
List(xs)   == [t |-> "list", items |-> xs]

Node(nodeType, nodes) ==
    [t |-> "obj", nodeType |-> nodeType, nodes |-> nodes,
     name |-> None, members |-> <<>>, documentation |-> Absent]

NodeTypes == {"StructDefinition", "ContractDefinition"}

\* the sequences of elements holding m elements in all, and the objects
\* holding k elements in all (themselves included)
RECURSIVE ForestsOfSize(_)
RECURSIVE NodesOfSize(_)
ForestsOfSize(m) ==
    IF m = 0 THEN {<<>>}
    ELSE UNION { {<<first>> \o rest :
                     first \in (IF k = 1 THEN {NonObject} ELSE {}) \cup NodesOfSize(k),
                     rest \in ForestsOfSize(m - k)}
               : k \in 1..m }

NodesOfSize(k) ==
    {Node(nt, nodes) :
        nt \in NodeTypes,
        nodes \in (IF k = 1 THEN {Absent, NonObject} ELSE {})
                  \cup {List(f) : f \in ForestsOfSize(k - 1)}}

NodesUpTo(n) == UNION {NodesOfSize(k) : k \in 1..n}

\* the element at a position: the indices to follow from the root
RECURSIVE ElementAt(_, _)
ElementAt(root, pos) ==
    IF pos = <<>> THEN root ELSE ElementAt(root.nodes.items[Head(pos)], Tail(pos))

(***************************************************************************)
(* ast_get_all_nodes: a generator.  A frame is one activation of the       *)
(* function: its node, the node's position, where the activation stands    *)
(* and the index of the child it is about to visit.  After a yield the     *)
(* generator is suspended until the consumer has taken the node.           *)
(***************************************************************************)
Criterias == {"always", "never", "StructDefinition"}

criteria_holds(c, node) ==
    CASE c = "always" -> TRUE
      [] c = "never"  -> FALSE
      [] OTHER        -> node.nodeType = c        \* main, line 192

\* ast.get('nodes', [])
nodes_of_lenient(node) ==
    IF node.nodes.t = "list" THEN node.nodes ELSE List(<<>>)

nodes_of(node) ==
    IF node.nodes = Absent THEN List(<<>>) ELSE node.nodes

Frame(node, pos) == [node |-> node, pos |-> pos, at |-> "criteria", i |-> 0]

Top == stack[Len(stack)]
SetTop(f) == [stack EXCEPT ![Len(stack)] = f]
Pop == SubSeq(stack, 1, Len(stack) - 1)

Running ==
    /\ pc \in {"search", "to_eip712"}
    /\ stack # <<>>
    /\ consumed = Len(yielded)

\* lines 59-60, without the test of the criteria
GenCriteriaUntested ==
    /\ Running
    /\ Top.at = "criteria"
    /\ yielded' = Append(yielded, Top.pos)
    /\ stack' = SetTop([Top EXCEPT !.at = "nodes"])
    /\ UNCHANGED <<pc, err, steps, ast, criteria, consumed>>
    /\ UNCHANGED <<locVars, mainVars, schemaVars, pmVars>>

\* lines 59-60: if criteria(ast): yield ast
GenCriteria ==
    /\ Running
    /\ Top.at = "criteria"
    /\ yielded' = IF criteria_holds(criteria, Top.node)
                  THEN Append(yielded, Top.pos) ELSE yielded
    /\ stack' = SetTop([Top EXCEPT !.at = "nodes"])
    /\ UNCHANGED <<pc, err, steps, ast, criteria, consumed>>
    /\ UNCHANGED <<locVars, mainVars, schemaVars, pmVars>>

\* lines 61-62: nodes = ast.get('nodes', []); assert isinstance(nodes, list)
GenNodes ==
    /\ Running
    /\ Top.at = "nodes"
    /\ IF nodes_of(Top.node).t = "list"
       THEN /\ stack' = SetTop([Top EXCEPT !.at = "loop", !.i = 1])
            /\ UNCHANGED <<pc, err>>
       ELSE /\ Fail("AssertionError")
            /\ UNCHANGED stack
    /\ UNCHANGED <<steps, ast, criteria, yielded, consumed>>
    /\ UNCHANGED <<locVars, mainVars, schemaVars, pmVars>>

\* lines 63-65: the next child, or the end of the activation
GenLoop ==
    /\ Running
    /\ Top.at = "loop"
    /\ LET items == nodes_of(Top.node).items
       IN  IF Top.i > Len(items)
           THEN /\ stack' = Pop
                /\ UNCHANGED <<pc, err>>
           ELSE IF items[Top.i].t = "obj"
           THEN /\ stack' = Append(SetTop([Top EXCEPT !.i = Top.i + 1]),
                                   Frame(items[Top.i], Append(Top.pos, Top.i)))
                /\ UNCHANGED <<pc, err>>
           ELSE /\ Fail("AssertionError")
                /\ UNCHANGED stack
    /\ UNCHANGED <<steps, ast, criteria, yielded, consumed>>
    /\ UNCHANGED <<locVars, mainVars, schemaVars, pmVars>>

\* a consumer that only collects the nodes, as list(...) does
AstTake ==
    /\ pc = "search"
    /\ consumed < Len(yielded)
    /\ consumed' = consumed + 1
    /\ UNCHANGED <<pc, err, steps, ast, criteria, stack, yielded>>
    /\ UNCHANGED <<locVars, mainVars, schemaVars, pmVars>>

\* the generator is exhausted
AstDone ==
    /\ pc = "search"
    /\ stack = <<>>
    /\ consumed = Len(yielded)
    /\ pc' = "done"
    /\ UNCHANGED <<err, steps, genVars>>
    /\ UNCHANGED <<locVars, mainVars, schemaVars, pmVars>>

(***************************************************************************)
(* Strings of the schema extractor: sequences of tokens.                   *)
(***************************************************************************)
Marker == "@custom:erc712"
Space  == " "

starts_with(s, tok) == s # <<>> /\ s[1] = tok

\* doc.replace('@custom:erc712', ''): every occurrence goes
remove_marker(s) == LET NotMarker(tok) == tok # Marker IN SelectSeq(s, NotMarker)

\* s.lstrip()
RECURSIVE lstrip(_)
lstrip(s) == IF s # <<>> /\ Head(s) = Space THEN lstrip(Tail(s)) ELSE s

\* s.strip()
RECURSIVE strip(_)
strip(s) ==
    LET l == lstrip(s)
    IN  IF l # <<>> /\ l[Len(l)] = Space THEN strip(SubSeq(l, 1, Len(l) - 1)) ELSE l

\* s.split(None, 1): the first word and, when something other than white
\* space follows it, the rest from its first non-space item on
split_once(s) ==
    LET l      == lstrip(s)
        spaces == {i \in 1..Len(l) : l[i] = Space}
        wlen   == IF spaces = {} THEN Len(l) ELSE Min(spaces) - 1
        rest   == lstrip(SubSeq(l, wlen + 1, Len(l)))
    IN  IF l = <<>> THEN <<>>
        ELSE IF rest = <<>> THEN <<SubSeq(l, 1, wlen)>>
        ELSE <<SubSeq(l, 1, wlen), rest>>

\* s.split(',')
RECURSIVE split_commas(_)
split_commas(s) ==
    LET commas == {i \in 1..Len(s) : s[i] = ","}
    IN  IF commas = {} THEN <<s>>
        ELSE <<SubSeq(s, 1, Min(commas) - 1)>>
             \o split_commas(SubSeq(s, Min(commas) + 1, Len(s)))

(***************************************************************************)
(* member_to_eip712_field and ast_to_eip712_type.  A call returns          *)
(* [ok |-> TRUE, ...] or, when it raises, [ok |-> FALSE, error, detail].   *)
(***************************************************************************)
Raise(error, detail) == [ok |-> FALSE, error |-> error, detail |-> detail]

ElementaryType(n)  == [nodeType |-> "ElementaryTypeName", name |-> n, pathNode |-> [name |-> None]]
UserDefinedType(n) == [nodeType |-> "UserDefinedTypeName", name |-> None, pathNode |-> [name |-> n]]
MappingType        == [nodeType |-> "Mapping", name |-> None, pathNode |-> [name |-> None]]

Member(name, typeName) == [name |-> name, typeName |-> typeName]

member_to_eip712_field(member) ==
    LET name      == member.name
        node_type == member.typeName.nodeType
    IN  IF node_type = "UserDefinedTypeName"
        THEN [ok |-> TRUE, field |-> [name |-> name, type |-> member.typeName.pathNode.name]]
        ELSE IF node_type = "ElementaryTypeName"
        THEN [ok |-> TRUE, field |-> [name |-> name, type |-> member.typeName.name]]
        ELSE Raise("ValueError: Unrecognized member .typeName.nodeType", node_type)

\* lines 105-108: the list comprehension over the members; the first member
\* that raises ends it
resolve_members(members) ==
    LET resolved == [i \in 1..Len(members) |-> member_to_eip712_field(members[i])]
        failed   == {i \in 1..Len(members) : ~resolved[i].ok}
    IN  IF failed # {} THEN resolved[Min(failed)]
        ELSE [ok |-> TRUE, fields |-> [i \in 1..Len(members) |-> resolved[i].field]]

\* lines 109-128: what the documentation asks for
directive(node) ==
    IF node.documentation = Absent THEN [ok |-> TRUE, exclude |-> <<>>]
    ELSE LET doc == node.documentation.text
         IN  IF ~starts_with(doc, Marker) THEN [ok |-> TRUE, exclude |-> <<>>]
             ELSE LET cmd == remove_marker(doc)
                  IN  IF starts_with(cmd, ":")
                      THEN LET parts == split_once(Tail(cmd))
                           IN  IF Len(parts) # 2
                               THEN Raise("ValueError: not enough values to unpack", Len(parts))
                               ELSE IF parts[1] = <<"exclude">>
                               THEN [ok |-> TRUE,
                                     exclude |-> [i \in 1..Len(split_commas(parts[2])) |->
                                                     strip(split_commas(parts[2])[i])]]
                               ELSE Raise("ValueError: Unknown sub command", parts[1])
                      ELSE Raise("ValueError: Unknown command", cmd)

\* the members named by the directive are dropped before their types are
\* resolved
ast_to_eip712_type_exclude_first(node) ==
    LET d == directive(node)
    IN  IF ~d.ok THEN d
        ELSE LET Kept(m) == m.name \notin Range(d.exclude)
                 r == resolve_members(SelectSeq(node.members, Kept))
             IN  IF ~r.ok THEN r
                 ELSE [ok |-> TRUE, name |-> node.name, fields |-> r.fields]

ast_to_eip712_type(node) ==
    LET r == resolve_members(node.members)
    IN  IF ~r.ok THEN r
        ELSE LET d == directive(node)
             IN  IF ~d.ok THEN d
                 ELSE LET Kept(f) == f.name \notin Range(d.exclude)
                      IN  [ok |-> TRUE, name |-> node.name,
                           fields |-> SelectSeq(r.fields, Kept)]

\* the struct definitions handed to the extractor
FieldNames  == {<<"a">>, <<"b">>}
MemberTypes == {ElementaryType("bool"), UserDefinedType("T"), MappingType}

MemberLists ==
    {ms \in SeqsUpTo({Member(n, ty) : n \in FieldNames, ty \in MemberTypes},
                     Cardinality(FieldNames)) :
        \A i, j \in 1..Len(ms) : ms[i].name = ms[j].name => i = j}

\* how a documentation text begins, and what may follow
DocHeads ==
    { <<>>,
      <<Marker>>,
      <<Marker, ":">>,
      <<Marker, ":", "exclude">>,
      <<Marker, ":", "exclude", Space>>,
      <<Marker, ":", Space, "exclude", Space>>,
      <<Marker, ":", "a", Space>>,
      <<Marker, Space, ":", "exclude", Space>>,
      <<Marker, Marker, ":", "exclude", Space>> }
DocData == SeqsUpTo({"a", "b", ",", Space, Marker}, MaxData)

Documentations ==
    {Absent} \cup {[t |-> "obj", text |-> h \o d] : h \in DocHeads, d \in DocData}

StructDefinition(name, members, documentation) ==
    [t |-> "obj", nodeType |-> "StructDefinition", nodes |-> Absent,
     name |-> name, members |-> members, documentation |-> documentation]

ApplyExtract ==
    /\ pc = "extract"
    /\ schema' = ast_to_eip712_type(struct_def)
    /\ IF schema'.ok
       THEN pc' = "done" /\ UNCHANGED err
       ELSE Fail(schema'.error)
    /\ UNCHANGED <<steps, struct_def>>
    /\ UNCHANGED <<locVars, genVars, mainVars, pmVars>>

(***************************************************************************)
(* parse_field_value.  A typed value is [py |-> "bool", v |-> TRUE/FALSE]  *)
(* or [py |-> "str", v |-> the raw string].                                *)
(***************************************************************************)
parse_field_value(value, field_type) ==
    IF field_type = "bool"
    THEN IF value \in {"false", "False", "0"}
         THEN [ok |-> TRUE, value |-> [py |-> "bool", v |-> FALSE]]
         ELSE IF value \in {"true", "True", "1"}
         THEN [ok |-> TRUE, value |-> [py |-> "bool", v |-> TRUE]]
         ELSE Raise("TypeError: Unrecognized boolean value", value)
    ELSE [ok |-> TRUE, value |-> [py |-> "str", v |-> value]]

(***************************************************************************)
(* main, lines 186-218: from the artifact to the printed digest.           *)
(***************************************************************************)
\* what the run may be given: the file system, the artifact, the arguments
MainFs == DirsUpTo(2, {<<"O">>})

RawValues == {"true", "x"}

TextExcludeB  == <<Marker, ":", "exclude", Space, "b">>
TextNoData    == <<Marker, ":", "exclude">>
Doc(text)     == [t |-> "obj", text |-> text]
BoolAndT      == <<Member(<<"a">>, ElementaryType("bool")), Member(<<"b">>, UserDefinedType("T"))>>

MainStructDefs ==
    { StructDefinition("Order", BoolAndT, Absent),
      StructDefinition("Order", BoolAndT, Doc(TextExcludeB)),
      StructDefinition("Order", BoolAndT, Doc(TextNoData)),
      StructDefinition("Order", <<Member(<<"a">>, MappingType)>>, Absent),
      StructDefinition("T", <<Member(<<"a">>, ElementaryType("bool"))>>, Absent) }

MainAsts ==
    {Node("SourceUnit", NonObject)}
    \cup {Node("SourceUnit", List(c)) : c \in SeqsUpTo(MainStructDefs \cup {NonObject}, MaxStructs)}

\* the content of an artifact file: not JSON with an 'ast' key, or an AST
Artifacts == {[ok |-> FALSE, ast |-> Absent]} \cup {[ok |-> TRUE, ast |-> a] : a \in MainAsts}

\* lines 187-188: open(artifact_path), json.load(f)['ast']
MainLoad ==
    /\ pc = "load"
    /\ IF ~EntryAt(artifact_path).isfile
       THEN /\ Fail("IsADirectoryError")
            /\ UNCHANGED <<ast, steps>>
       ELSE \E content \in Artifacts :
               IF content.ok
               THEN /\ ast' = content.ast
                    /\ Step("traverse", "parsed")
               ELSE /\ Fail("JSONDecodeError or KeyError: 'ast'")
                    /\ UNCHANGED <<ast, steps>>
    /\ UNCHANGED <<criteria, stack, yielded, consumed>>
    /\ UNCHANGED <<locVars, mainVars, schemaVars, pmVars>>

\* lines 190-193: struct_defs = ast_get_all_nodes(ast, lambda ...); nothing
\* of the generator runs yet
MainTraverse ==
    /\ pc = "traverse"
    /\ criteria' = "StructDefinition"
    /\ stack' = <<Frame(ast, <<>>)>>
    /\ yielded' = <<>>
    /\ consumed' = 0
    /\ Step("to_eip712", None)
    /\ UNCHANGED ast
    /\ UNCHANGED <<locVars, mainVars, schemaVars, pmVars>>

\* d[k] = v on a dict
DictSet(d, k, v) == [x \in DOMAIN d \cup {k} |-> IF x = k THEN v ELSE d[x]]

\* lines 196-199, with a struct that cannot be extracted left out of the
\* registry instead of ending the run
MainExtractSkipFailed ==
    /\ pc = "to_eip712"
    /\ consumed < Len(yielded)
    /\ LET r == ast_to_eip712_type(ElementAt(ast, yielded[consumed + 1]))
       IN  /\ file_types' = IF r.ok THEN DictSet(file_types, r.name, r.fields) ELSE file_types
           /\ consumed' = consumed + 1
           /\ UNCHANGED <<pc, err>>
    /\ UNCHANGED <<steps, ast, criteria, stack, yielded>>
    /\ UNCHANGED <<struct_name, values, fields, field_values, hash, stdout>>
    /\ UNCHANGED <<locVars, schemaVars, pmVars>>

\* lines 196-199: dict(...) takes the next struct definition and extracts it
MainExtract ==
    /\ pc = "to_eip712"
    /\ consumed < Len(yielded)
    /\ LET r == ast_to_eip712_type(ElementAt(ast, yielded[consumed + 1]))
       IN  IF r.ok
           THEN /\ file_types' = DictSet(file_types, r.name, r.fields)
                /\ consumed' = consumed + 1
                /\ UNCHANGED <<pc, err>>
           ELSE /\ Fail(r.error)
                /\ UNCHANGED <<file_types, consumed>>
    /\ UNCHANGED <<steps, ast, criteria, stack, yielded>>
    /\ UNCHANGED <<struct_name, values, fields, field_values, hash, stdout>>
    /\ UNCHANGED <<locVars, schemaVars, pmVars>>

\* lines 196-199: the generator is exhausted, file_types is complete
MainRegistryDone ==
    /\ pc = "to_eip712"
    /\ stack = <<>>
    /\ consumed = Len(yielded)
    /\ Step("lookup", "extracted")
    /\ UNCHANGED <<genVars, mainVars, locVars, schemaVars, pmVars>>

\* line 201: fields = file_types[struct_name]
MainLookup ==
    /\ pc = "lookup"
    /\ IF struct_name \in DOMAIN file_types
       THEN /\ fields' = file_types[struct_name]
            /\ Step("arity", "found")
       ELSE /\ Fail("KeyError")
            /\ UNCHANGED <<fields, steps>>
    /\ UNCHANGED <<struct_name, values, file_types, field_values, hash, stdout>>
    /\ UNCHANGED <<genVars, locVars, schemaVars, pmVars>>

\* lines 203-206, without the comparison of the two lengths
MainArityUnchecked ==
    /\ pc = "arity"
    /\ Step("coerce", "arity")
    /\ UNCHANGED <<genVars, mainVars, locVars, schemaVars, pmVars>>

\* lines 203-206: if len(args.values) != len(fields): raise ValueError
MainArity ==
    /\ pc = "arity"
    /\ IF Len(values) # Len(fields)
       THEN /\ Fail("ValueError: Got n values, expected m")
            /\ UNCHANGED steps
       ELSE Step("coerce", "arity")
    /\ UNCHANGED <<genVars, mainVars, locVars, schemaVars, pmVars>>

\* lines 212-215: the dict comprehension over zip(fields, args.values); the
\* first value that cannot be coerced ends it
MainCoerce ==
    /\ pc = "coerce"
    /\ LET n       == IF Len(fields) < Len(values) THEN Len(fields) ELSE Len(values)
           coerced == [i \in 1..n |-> parse_field_value(values[i], fields[i].type)]
           failed  == {i \in 1..n : ~coerced[i].ok}
           names   == {fields[i].name : i \in 1..n}
       IN  IF failed # {}
           THEN /\ Fail(coerced[Min(failed)].error)
                /\ UNCHANGED <<field_values, steps>>
           ELSE /\ field_values' =
                       [nm \in names |->
                           coerced[Max({i \in 1..n : fields[i].name = nm})].value]
                /\ Step("hash_struct", "coerced")
    /\ UNCHANGED <<struct_name, values, file_types, fields, hash, stdout>>
    /\ UNCHANGED <<genVars, locVars, schemaVars, pmVars>>

\* lines 209-216: hash_struct(struct_name, file_types, {...}), a library
\* call: it returns the digest of what it was given, or it raises
MainHash ==
    /\ pc = "hash_struct"
    /\ \/ /\ hash' = [primary_type |-> struct_name, types |-> file_types, data |-> field_values]
          /\ Step("print", "hashed")
       \/ /\ Fail("hash_struct raised")
          /\ UNCHANGED <<hash, steps>>
    /\ UNCHANGED <<struct_name, values, file_types, fields, field_values, stdout>>
    /\ UNCHANGED <<genVars, locVars, schemaVars, pmVars>>

\* line 218: print(f'0x{hash.hex()}')
MainPrint ==
    /\ pc = "print"
    /\ stdout' = Append(stdout, [prefix |-> "0x", hex |-> hash])
    /\ Step("done", None)
    /\ UNCHANGED <<struct_name, values, file_types, fields, field_values, hash>>
    /\ UNCHANGED <<genVars, locVars, schemaVars, pmVars>>

(***************************************************************************)
(* Specifications.                                                         *)
(***************************************************************************)
Idle ==
    /\ err = None /\ steps = <<>>
    /\ out_dir = <<>> /\ possibilities = <<>>
    /\ artifacts_path = <<>> /\ artifact_path = <<>>
    /\ stack = <<>> /\ yielded = <<>> /\ consumed = 0
    /\ file_types = <<>> /\ fields = <<>> /\ field_values = <<>>
    /\ hash = None /\ stdout = <<>>
    /\ schema = None /\ pm_result = -1

\* the artifact locator on its own
InitLocate ==
    /\ Idle
    /\ pc = "map_dir"
    /\ fs \in DirsUpTo(MaxEntries, Names)
    /\ struct_path \in Requests
    /\ struct_name = None /\ values = <<>>
    /\ ast = [t |-> "absent"] /\ criteria = None
    /\ struct_def = [t |-> "absent"]
    /\ pm_target = <<>> /\ pm_match = <<>>

NextLocate == MainMapDir \/ MainLocate \/ MainListDir

SpecLocate == InitLocate /\ [][NextLocate]_vars

\* path_match on its own
Chars == {"a", "b"}

ApplyPathMatch ==
    /\ pc = "path_match"
    /\ pm_result' = path_match(pm_target, pm_match)
    /\ pc' = "done"
    /\ UNCHANGED <<err, steps, pm_target, pm_match>>
    /\ UNCHANGED <<locVars, genVars, mainVars, schemaVars>>

InitPathMatch ==
    /\ Idle
    /\ pc = "path_match"
    /\ pm_target \in SeqsUpTo(Chars, MaxStr)
    /\ pm_match \in SeqsUpTo(Chars, MaxStr)
    /\ fs = <<>> /\ struct_path = <<>>
    /\ struct_name = None /\ values = <<>>
    /\ ast = [t |-> "absent"] /\ criteria = None
    /\ struct_def = [t |-> "absent"]

NextPathMatch == ApplyPathMatch

SpecPathMatch == InitPathMatch /\ [][NextPathMatch]_vars

(***************************************************************************)
(* Properties of the artifact locator.                                     *)
(***************************************************************************)
Located == pc \in {"listdir", "load"} \/ (pc = "error" /\ err \in {"NotADirectoryError", "IndexError"})
Enumerated == pc \notin {"map_dir", "locate"}

Score(m) == path_match(struct_path, m)

ScenarioC_request == <<"c", "/", "O">>
ScenarioC_contracts == <<"o", "/", "c", "/", "O">>
ScenarioC_test == <<"o", "/", "t", "/", "O">>

\* C1: the chosen candidate is one of the candidates produced, no candidate
\* scores higher than it against the requested path and every candidate
\* enumerated before it scores strictly lower; with the candidates
\* out/contracts/Order.sol and out/test/Order.sol and the request
\* contracts/Order.sol the former is chosen in either enumeration order.
C1_FirstMaximalChosen ==
    Located =>
        /\ \E i \in 1..Len(possibilities) :
              /\ possibilities[i] = artifacts_path
              /\ \A j \in 1..Len(possibilities) : Score(possibilities[j]) <= Score(artifacts_path)
              /\ \A j \in 1..(i - 1) : Score(possibilities[j]) < Score(artifacts_path)
        /\ (/\ struct_path = ScenarioC_request
            /\ Range(possibilities) = {ScenarioC_contracts, ScenarioC_test})
           => artifacts_path = ScenarioC_contracts

\* two candidates tie at the maximum and the first one was chosen
C1_Witness ==
    /\ Located
    /\ Len(possibilities) >= 2
    /\ artifacts_path = possibilities[1]
    /\ Score(possibilities[2]) = Score(possibilities[1])
    /\ Score(artifacts_path) > 0

\* C2: matching_paths yields exactly the paths below the root whose final
\* segment is the target name, each once, also those below a directory that
\* itself bears the target name.
C2_EveryMatchingPathYielded ==
    Enumerated =>
        /\ \A i, j \in 1..Len(possibilities) : possibilities[i] = possibilities[j] => i = j
        /\ Range(possibilities) =
              {x.path : x \in {y \in Entries(fs, <<OutName>>) : y.entry.name = PathTail(struct_path)}}

(***************************************************************************)
(* Properties of path_match.                                               *)
(***************************************************************************)
\* the length of the longest common suffix, from its definition
LongestCommonSuffix(a, b) ==
    LET shorter == IF Len(a) <= Len(b) THEN Len(a) ELSE Len(b)
    IN  Max({k \in 0..shorter : \A j \in 1..k : a[Len(a) - j + 1] = b[Len(b) - j + 1]})

\* C3: path_match(a, b) is the length of the longest common suffix of a and
\* b, it equals path_match(b, a), and path_match(a, a) = len(a).
C3_PathMatchIsCommonSuffix ==
    pc = "done" =>
        /\ pm_result = LongestCommonSuffix(pm_target, pm_match)
        /\ pm_result = path_match(pm_match, pm_target)
        /\ pm_target = pm_match => pm_result = Len(pm_target)

\* the match is a proper suffix of the target and shorter than it
C3_Witness ==
    /\ pc = "done"
    /\ Len(pm_match) < Len(pm_target)
    /\ pm_match # <<>>
    /\ pm_result = Len(pm_match)

\* ast_get_all_nodes on its own
InitAst ==
    /\ err = None /\ steps = <<>>
    /\ fs = <<>> /\ struct_path = <<>>
    /\ out_dir = <<>> /\ possibilities = <<>>
    /\ artifacts_path = <<>> /\ artifact_path = <<>>
    /\ struct_name = None /\ values = <<>>
    /\ file_types = <<>> /\ fields = <<>> /\ field_values = <<>>
    /\ hash = None /\ stdout = <<>>
    /\ struct_def = [t |-> "absent"] /\ schema = None
    /\ pm_target = <<>> /\ pm_match = <<>> /\ pm_result = -1
    /\ pc = "search"
    /\ ast \in NodesUpTo(MaxNodes)
    /\ criteria \in Criterias
    /\ stack = <<Frame(ast, <<>>)>>
    /\ yielded = <<>>
    /\ consumed = 0

NextAst == GenCriteria \/ GenNodes \/ GenLoop \/ AstTake \/ AstDone

SpecAst == InitAst /\ [][NextAst]_vars

(***************************************************************************)
(* Properties of ast_get_all_nodes.                                        *)
(***************************************************************************)
\* the positions of the objects of a tree
RECURSIVE ObjectPositions(_, _)
ObjectPositions(node, pos) ==
    {pos} \cup
    (IF node.nodes.t = "list"
     THEN UNION { IF node.nodes.items[i].t = "obj"
                  THEN ObjectPositions(node.nodes.items[i], Append(pos, i))
                  ELSE {}
                : i \in 1..Len(node.nodes.items) }
     ELSE {})

\* the malformed places of a tree: position p \o <<0>> when the 'nodes' value
\* of the object at p is no list, p \o <<i>> when its i-th element is no object
RECURSIVE MalformedPlaces(_, _)
MalformedPlaces(node, pos) ==
    IF node.nodes.t = "list"
    THEN UNION { IF node.nodes.items[i].t = "obj"
                 THEN MalformedPlaces(node.nodes.items[i], Append(pos, i))
                 ELSE {Append(pos, i)}
               : i \in 1..Len(node.nodes.items) }
    ELSE IF node.nodes = Absent THEN {} ELSE {Append(pos, 0)}

\* p comes before q in pre-order: an ancestor before its descendants, an
\* earlier sibling and all below it before a later sibling
Before(p, q) ==
    /\ p # q
    /\ \/ /\ Len(p) < Len(q)
          /\ \A k \in 1..Len(p) : p[k] = q[k]
       \/ \E k \in 1..(IF Len(p) < Len(q) THEN Len(p) ELSE Len(q)) :
             /\ p[k] < q[k]
             /\ \A j \in 1..(k - 1) : p[j] = q[j]

WellFormed == MalformedPlaces(ast, <<>>) = {}

FirstMalformed ==
    CHOOSE f \in MalformedPlaces(ast, <<>>) :
        \A g \in MalformedPlaces(ast, <<>>) : ~Before(g, f)

Satisfying ==
    {p \in ObjectPositions(ast, <<>>) : criteria_holds(criteria, ElementAt(ast, p))}

InPreOrder(seq) == \A i, j \in 1..Len(seq) : i < j => Before(seq[i], seq[j])

\* C5: on a well-formed tree the search does not fail, what it has yielded
\* is in pre-order at every moment, and when it ends it has yielded exactly
\* the objects satisfying the predicate, each once: all of them for the
\* always-true predicate and none for the always-false one.
C5_PreOrderSearch ==
    (pc \in {"search", "done"} /\ WellFormed) =>
        /\ InPreOrder(yielded)
        /\ Range(yielded) \subseteq Satisfying
        /\ pc = "done" =>
              /\ Range(yielded) = Satisfying
              /\ criteria = "always" => Len(yielded) = Cardinality(ObjectPositions(ast, <<>>))
              /\ criteria = "never" => yielded = <<>>
        /\ pc = "search" => ENABLED NextAst

\* a grandchild was yielded before its parent's later sibling
C5_Witness ==
    /\ pc = "done"
    /\ WellFormed
    /\ criteria = "StructDefinition"
    /\ \E i \in 1..(Len(yielded) - 1) :
          /\ Len(yielded[i]) = 2
          /\ Len(yielded[i + 1]) = 1
    /\ Range(yielded) # ObjectPositions(ast, <<>>)

\* C9: on a tree with a malformed place the search never ends normally, it
\* goes on until it fails, it fails with the assertion error, and by then
\* it has yielded exactly the satisfying objects that come before the first
\* malformed place in pre-order, and nothing after it.
C9_MalformedNodeFails ==
    (pc \in {"search", "done", "error"} /\ ~WellFormed) =>
        /\ pc # "done"
        /\ pc = "search" => ENABLED NextAst
        /\ \A i \in 1..Len(yielded) : Before(yielded[i], FirstMalformed)
        /\ pc = "error" =>
              /\ err = "AssertionError"
              /\ stack # <<>>
              /\ InPreOrder(yielded)
              /\ Range(yielded) = {p \in Satisfying : Before(p, FirstMalformed)}

\* the search failed at an element that is no object, after it had yielded
\* an earlier sibling, and with an object left unvisited after it
C9_Witness ==
    /\ pc = "error"
    /\ yielded # <<>>
    /\ FirstMalformed[Len(FirstMalformed)] >= 2
    /\ \E p \in Satisfying : Before(FirstMalformed, p)

\* ast_to_eip712_type on its own
InitSchema ==
    /\ Idle
    /\ pc = "extract"
    /\ struct_def \in {StructDefinition("Order", ms, d) : ms \in MemberLists, d \in Documentations}
    /\ fs = <<>> /\ struct_path = <<>>
    /\ struct_name = None /\ values = <<>>
    /\ ast = [t |-> "absent"] /\ criteria = None
    /\ pm_target = <<>> /\ pm_match = <<>>

NextSchema == ApplyExtract

SpecSchema == InitSchema /\ [][NextSchema]_vars

(***************************************************************************)
(* Properties of ast_to_eip712_type.  The directive as it is written in    *)
(* the documentation text: what follows the marker at the start of the     *)
(* text, the sub-command up to the first white space, the data after it.   *)
(***************************************************************************)
Extracted == pc \in {"done", "error"} /\ struct_def # Absent

HasMarkerIn(node) ==
    node.documentation # Absent /\ starts_with(node.documentation.text, Marker)
AfterMarkerIn(node) == Tail(node.documentation.text)
FollowedByColonIn(node) == starts_with(AfterMarkerIn(node), ":")
AfterColonIn(node) == Tail(AfterMarkerIn(node))
FirstSpaceIn(node) ==
    LET spaces == {i \in 1..Len(AfterColonIn(node)) : AfterColonIn(node)[i] = Space}
    IN  IF spaces = {} THEN Len(AfterColonIn(node)) + 1 ELSE Min(spaces)
WrittenSubCommandIn(node) == SubSeq(AfterColonIn(node), 1, FirstSpaceIn(node) - 1)
WrittenDataIn(node) ==
    SubSeq(AfterColonIn(node), FirstSpaceIn(node) + 1, Len(AfterColonIn(node)))
IsExcludeDirectiveIn(node) ==
    HasMarkerIn(node) /\ FollowedByColonIn(node) /\ WrittenSubCommandIn(node) = <<"exclude">>
WrittenNamesIn(node) == {strip(e) : e \in Range(split_commas(WrittenDataIn(node)))}

Recognized(m) == m.typeName.nodeType \in {"UserDefinedTypeName", "ElementaryTypeName"}

DeclaredIn(node) ==
    [i \in 1..Len(node.members) |->
        [name |-> node.members[i].name,
         type |-> IF node.members[i].typeName.nodeType = "UserDefinedTypeName"
                  THEN node.members[i].typeName.pathNode.name
                  ELSE node.members[i].typeName.name]]

DeclaredWithoutIn(node, names) ==
    LET Kept(f) == f.name \notin names IN SelectSeq(DeclaredIn(node), Kept)

HasMarker == HasMarkerIn(struct_def)
AfterMarker == AfterMarkerIn(struct_def)
FollowedByColon == FollowedByColonIn(struct_def)
AfterColon == AfterColonIn(struct_def)
WrittenSubCommand == WrittenSubCommandIn(struct_def)
IsExcludeDirective == IsExcludeDirectiveIn(struct_def)
WrittenNames == WrittenNamesIn(struct_def)
AllRecognized == \A i \in 1..Len(struct_def.members) : Recognized(struct_def.members[i])
Declared == DeclaredIn(struct_def)
DeclaredWithout(names) == DeclaredWithoutIn(struct_def, names)

\* C6: for a struct whose members are all recognized, the extracted field
\* list is the declared list without the fields the exclude directive names,
\* in declaration order, with the struct name returned; without
\* documentation or without the marker at the start of the text it is the
\* full declared list.
C6_DeclaredMinusNamed ==
    (Extracted /\ AllRecognized) =>
        /\ ~HasMarker =>
              /\ schema.ok
              /\ schema.name = struct_def.name
              /\ schema.fields = Declared
        /\ (IsExcludeDirective /\ schema.ok) =>
              /\ schema.name = struct_def.name
              /\ schema.fields = DeclaredWithout(WrittenNames)

\* C7: for a text that begins with the marker the extraction ends in
\* exactly one of: the exclusion applied (marker followed by ':' and
\* sub-command 'exclude'), the unknown-directive error (marker followed by
\* ':' and another sub-command), the malformed-directive error (marker not
\* followed by ':').
C7_DirectiveOutcomesTotal ==
    (Extracted /\ AllRecognized /\ HasMarker) =>
        \/ /\ IsExcludeDirective
           /\ schema.ok
           /\ schema.fields = DeclaredWithout(WrittenNames)
        \/ /\ FollowedByColon
           /\ WrittenSubCommand # <<"exclude">>
           /\ ~schema.ok
           /\ schema.error = "ValueError: Unknown sub command"
        \/ /\ ~FollowedByColon
           /\ ~schema.ok
           /\ schema.error = "ValueError: Unknown command"

\* C10: a struct with a member whose type kind is neither
\* UserDefinedTypeName nor ElementaryTypeName always fails with the
\* unrecognized-member error carrying the kind of the first such member,
\* whatever its documentation says, also when the directive names the member.
C10_UnrecognizedMemberFails ==
    (Extracted /\ ~AllRecognized) =>
        /\ pc = "error"
        /\ ~schema.ok
        /\ err = "ValueError: Unrecognized member .typeName.nodeType"
        /\ schema.error = err
        /\ LET first == Min({i \in 1..Len(struct_def.members) : ~Recognized(struct_def.members[i])})
           IN  schema.detail = struct_def.members[first].typeName.nodeType

\* the only unrecognized member is named by a well-formed exclude directive
C10_Witness ==
    /\ Extracted
    /\ pc = "error"
    /\ IsExcludeDirective
    /\ directive(struct_def).ok
    /\ Len(struct_def.members) = 2
    /\ \A i \in 1..Len(struct_def.members) :
          ~Recognized(struct_def.members[i]) <=> struct_def.members[i].name \in WrittenNames
    /\ \E i \in 1..Len(struct_def.members) : ~Recognized(struct_def.members[i])

\* a whole run of main
InitMain ==
    /\ Idle
    /\ pc = "map_dir"
    /\ fs \in MainFs
    /\ struct_path = <<"c", "/", "O">>
    /\ struct_name \in {"Order", "T"}
    /\ values \in SeqsUpTo(RawValues, MaxValues)
    /\ ast = Absent /\ criteria = None
    /\ struct_def = Absent
    /\ pm_target = <<>> /\ pm_match = <<>>

NextMain ==
    \/ MainMapDir \/ MainLocate \/ MainListDir \/ MainLoad \/ MainTraverse
    \/ GenCriteria \/ GenNodes \/ GenLoop
    \/ MainExtract \/ MainRegistryDone
    \/ MainLookup \/ MainArity \/ MainCoerce \/ MainHash \/ MainPrint

SpecMain == InitMain /\ [][NextMain]_vars

(***************************************************************************)
(* Properties of main.                                                     *)
(***************************************************************************)
AllSteps == <<"located", "parsed", "extracted", "found", "arity", "coerced", "hashed">>
Completed(step) == step \in Range(steps)

ArityError == "ValueError: Got n values, expected m"

StructPositions ==
    {p \in ObjectPositions(ast, <<>>) : ElementAt(ast, p).nodeType = "StructDefinition"}

\* the struct definition the registry holds under the requested name: the
\* last one of that name in the AST
RequestedDefinition ==
    LET named == {i \in 1..Len(yielded) : ElementAt(ast, yielded[i]).name = struct_name}
    IN  ElementAt(ast, yielded[Max(named)])

\* its fields after the exclusion its directive asks for
RequestedFields ==
    DeclaredWithoutIn(RequestedDefinition,
                      IF IsExcludeDirectiveIn(RequestedDefinition)
                      THEN WrittenNamesIn(RequestedDefinition) ELSE {})

\* C4: the steps of a run complete in one fixed order, each at most once;
\* the digest is printed only when all of them have completed and what is
\* printed is the digest the hash boundary returned; a completed step has
\* done its work (the registry holds every struct definition of the
\* artifact, the requested name is in it, the counts agree, every value is
\* coerced); a run that failed has printed nothing and takes no further step.
C4_NoPartialHash ==
    /\ Len(steps) <= Len(AllSteps)
    /\ steps = SubSeq(AllSteps, 1, Len(steps))
    /\ Len(stdout) <= 1
    /\ stdout # <<>> =>
          /\ pc = "done"
          /\ steps = AllSteps
          /\ stdout[1] = [prefix |-> "0x", hex |-> hash]
    /\ pc = "done" => stdout # <<>>
    /\ pc = "error" <=> err # None
    /\ pc = "error" =>
          /\ stdout = <<>>
          /\ ~ENABLED NextMain
    /\ Completed("located") =>
          /\ artifacts_path \in Range(possibilities)
          /\ artifact_path = PathJoin(<<artifacts_path, EntryAt(artifacts_path).sub[1].name>>)
    /\ Completed("parsed") =>
          /\ EntryAt(artifact_path).isfile
          /\ ast \in MainAsts
    /\ Completed("extracted") =>
          /\ WellFormed
          /\ Range(yielded) = StructPositions
          /\ consumed = Len(yielded)
          /\ DOMAIN file_types = {ElementAt(ast, p).name : p \in StructPositions}
    /\ Completed("found") =>
          /\ struct_name \in DOMAIN file_types
          /\ fields = file_types[struct_name]
    /\ Completed("arity") => Len(values) = Len(fields)
    /\ Completed("coerced") =>
          /\ DOMAIN field_values = {fields[i].name : i \in 1..Len(fields)}
          /\ \A i \in 1..Len(fields) :
                IF fields[i].type = "bool"
                THEN /\ field_values[fields[i].name].py = "bool"
                     /\ values[i] \in {"false", "False", "0", "true", "True", "1"}
                ELSE field_values[fields[i].name] = [py |-> "str", v |-> values[i]]
    /\ Completed("hashed") =>
          hash = [primary_type |-> struct_name, types |-> file_types, data |-> field_values]

\* a digest was printed for a struct of two fields
C4_Witness ==
    /\ pc = "done"
    /\ stdout # <<>>
    /\ Len(fields) = 2
    /\ Len(yielded) = 2

\* C8: the run gets past the arity check only if the number of raw values
\* equals the number of fields of the requested struct after exclusion;
\* otherwise it fails with the arity error, with no value coerced and the
\* hash boundary not invoked, so that a failed coercion always comes after a
\* passed arity check.  With two declared fields of which one is excluded,
\* one value passes and two values fail.
C8_ArityBeforeCoercion ==
    /\ Completed("found") => fields = RequestedFields
    /\ pc \in {"coerce", "hash_struct", "print", "done"} =>
          /\ Completed("arity")
          /\ Len(values) = Len(RequestedFields)
    /\ (Completed("found") /\ Len(values) # Len(RequestedFields)) =>
          /\ pc = "arity" \/ (pc = "error" /\ err = ArityError)
          /\ steps = SubSeq(AllSteps, 1, 4)
          /\ field_values = <<>>
    /\ (pc = "error" /\ err = "TypeError: Unrecognized boolean value") =>
          /\ Completed("arity")
          /\ Len(values) = Len(RequestedFields)
    /\ (/\ Completed("found")
        /\ pc # "arity"
        /\ Len(RequestedDefinition.members) = 2
        /\ Len(RequestedFields) = 1) =>
          /\ Len(values) = 1 => Completed("arity")
          /\ Len(values) = 2 => (pc = "error" /\ err = ArityError)

\* two values, the first no boolean literal, for a struct of two declared
\* fields with one excluded: the run failed with the arity error
C8_Witness ==
    /\ pc = "error"
    /\ err = ArityError
    /\ Completed("found")
    /\ Len(RequestedDefinition.members) = 2
    /\ Len(fields) = 1
    /\ fields[1].type = "bool"
    /\ values = <<"x", "true">>

====
